---------------------------- MODULE Spec2Model ----------------------------
(***************************************************************************)
(* A model of the livewell-nadex backtesting pipeline:                     *)
(*   - nadex_common/kpi_calculator.py   calculate_kpis                     *)
(*   - notebooks/archive/backtest_simplified.py                            *)
(*       aggregate_to_daily, calculate_probability_itm,                    *)
(*       calculate_fair_entry_cost, calculate_rsi, generate_rsi_signals,   *)
(*       backtest_strategy, load_all_historical_data, main                 *)
(*   - nadex_common/backtest_results.py  BacktestResults: save_to_s3,      *)
(*       save_local, load_from_s3, load_local                              *)
(*                                                                         *)
(* The computing functions are pure: SpecKpi, SpecPrice, SpecBacktest and  *)
(* SpecAggregate draw the arguments of one function from bounded sets in   *)
(* their initial state and have one action per call, which stores the      *)
(* value returned (or the exception raised).  SpecLoad steps through the   *)
(* loop of load_all_historical_data over a listing, and SpecStore through  *)
(* the writes of the saves, one put at a time, with loads in between.      *)
(*                                                                         *)
(* Numbers.  Money and prices are integers.  Wherever the code divides,    *)
(* the result is an IEEE-754 value modelled by a tagged record:            *)
(*   [k |-> "fin", n, d]   the rational n/d (d > 0, lowest terms); n = 0   *)
(*                         is +0.0                                         *)
(*   [k |-> "negzero"]     -0.0                                            *)
(*   [k |-> "inf"], [k |-> "neginf"], [k |-> "nan"]                        *)
(* so that division by zero, infinities and NaN behave as numpy's float64  *)
(* does, and comparisons with NaN are false.                               *)
(***************************************************************************)
EXTENDS Integers, Sequences, FiniteSets, TLC

VARIABLES
    pc,                       \* position of the run: "start", "done", and the steps of the second aggregation and of the load
    trades,                   \* calculate_kpis: the trades DataFrame (a sequence of rows)
    commission_per_contract,  \* calculate_kpis: its second argument
    kpis,                     \* calculate_kpis: the dict returned
    exp_value,                \* calculate_fair_entry_cost: argument
    strike_price,             \* calculate_fair_entry_cost: argument
    volatility,               \* calculate_fair_entry_cost: argument
    arg_type,                 \* "float" (Python) | "float64" (numpy): type of the arguments
    priced,                   \* calculate_fair_entry_cost: the tuple returned, or the exception
    data,                     \* backtest_strategy: the daily DataFrame (a sequence of rows)
    rsi_period,               \* backtest_strategy: argument
    results,                  \* backtest_strategy: the DataFrame returned, or the exception
    raw_data,                 \* aggregate_to_daily: the raw DataFrame (a sequence of rows)
    daily_data,               \* aggregate_to_daily: the DataFrame returned, or the exception
    daily_again,              \* aggregate_to_daily: what a second call, on daily_data, returned
    added_columns,            \* aggregate_to_daily: the frames it wrote 'strike_distance' into
    response,                 \* load_all_historical_data: what list_objects_v2 answers
    obj_pos,                  \* load_all_historical_data: position of the loop in response['Contents']
    all_data,                 \* load_all_historical_data: the frames read so far
    attempted,                \* load_all_historical_data: the positions get_object was called for
    store,                    \* BacktestResults: the objects of the bucket and the files of the local directory, by <<folder, artifact>>
    saves,                    \* BacktestResults: the save calls made so far, in order
    todo,                     \* BacktestResults: the writes the running save has still to make
    put_log,                  \* BacktestResults: every write made, with the save that made it
    loaded                    \* BacktestResults: the last load call and what it returned or raised

kpiVars == <<trades, commission_per_contract, kpis>>

priceVars == <<exp_value, strike_price, volatility, arg_type, priced>>

backtestVars == <<data, rsi_period, results>>

aggregateVars == <<raw_data, daily_data, daily_again, added_columns>>

loaderVars == <<response, obj_pos, all_data, attempted>>

storeVars == <<store, saves, todo, put_log, loaded>>

vars ==
    <<pc, kpiVars, priceVars, backtestVars, aggregateVars, loaderVars,
      storeVars>>

None == "None"

(***************************************************************************)
(* Integer helpers                                                         *)
(***************************************************************************)
Abs(x) == IF x < 0 THEN -x ELSE x

RECURSIVE Gcd(_, _)
Gcd(a, b) == IF b = 0 THEN a ELSE Gcd(b, a % b)

SetMin(S) == CHOOSE x \in S : \A y \in S : x <= y

SetMax(S) == CHOOSE x \in S : \A y \in S : x >= y

(***************************************************************************)
(* float64 values                                                          *)
(***************************************************************************)
NaN == [k |-> "nan", n |-> 0, d |-> 1]

PosInf == [k |-> "inf", n |-> 0, d |-> 1]

NegInf == [k |-> "neginf", n |-> 0, d |-> 1]

NegZero == [k |-> "negzero", n |-> 0, d |-> 1]

\* The float n/d, d # 0, in lowest terms with a positive denominator.
Fin(n, d) ==
    LET g == Gcd(Abs(n), Abs(d))
        s == IF d < 0 THEN -1 ELSE 1
    IN  [k |-> "fin", n |-> (s * n) \div g, d |-> (s * d) \div g]

FromInt(i) == Fin(i, 1)

IsZero(x) == x.k = "negzero" \/ (x.k = "fin" /\ x.n = 0)

IsFinite(x) == x.k \in {"fin", "negzero"}

\* -1, 0 or 1 for the sign bit of a non-NaN float (zeros carry a sign too).
SignBit(x) ==
    CASE x.k = "negzero" -> -1
      [] x.k = "neginf" -> -1
      [] x.k = "inf" -> 1
      [] x.k = "fin" -> IF x.n < 0 THEN -1 ELSE 1
      [] OTHER -> 0

SignedZero(s) == IF s < 0 THEN NegZero ELSE FromInt(0)

SignedInf(s) == IF s < 0 THEN NegInf ELSE PosInf

\* Unary minus.
FNeg(x) ==
    CASE x.k = "nan" -> NaN
      [] x.k = "inf" -> NegInf
      [] x.k = "neginf" -> PosInf
      [] x.k = "negzero" -> FromInt(0)
      [] OTHER -> IF x.n = 0 THEN NegZero ELSE Fin(-x.n, x.d)

\* numpy float64 true division: x / 0 is +-inf, 0 / 0 and inf / inf are NaN;
\* nothing is raised.
FDiv(a, b) ==
    CASE a.k = "nan" \/ b.k = "nan" -> NaN
      [] IsZero(b) ->
            IF IsZero(a) THEN NaN ELSE SignedInf(SignBit(a) * SignBit(b))
      [] ~IsFinite(b) ->
            IF ~IsFinite(a) THEN NaN ELSE SignedZero(SignBit(a) * SignBit(b))
      [] ~IsFinite(a) -> SignedInf(SignBit(a) * SignBit(b))
      [] IsZero(a) -> SignedZero(SignBit(a) * SignBit(b))
      [] OTHER -> Fin(a.n * b.d, a.d * b.n)

\* float64 addition.
FAdd(a, b) ==
    CASE a.k = "nan" \/ b.k = "nan" -> NaN
      [] ~IsFinite(a) /\ ~IsFinite(b) -> IF a.k = b.k THEN a ELSE NaN
      [] ~IsFinite(a) -> a
      [] ~IsFinite(b) -> b
      [] IsZero(a) /\ IsZero(b) ->
            IF a.k = "negzero" /\ b.k = "negzero" THEN NegZero ELSE FromInt(0)
      [] IsZero(a) -> b
      [] IsZero(b) -> a
      [] OTHER -> Fin(a.n * b.d + b.n * a.d, a.d * b.d)

FSub(a, b) == FAdd(a, FNeg(b))

\* float64 multiplication.
FMul(a, b) ==
    CASE a.k = "nan" \/ b.k = "nan" -> NaN
      [] (~IsFinite(a) /\ IsZero(b)) \/ (IsZero(a) /\ ~IsFinite(b)) -> NaN
      [] ~IsFinite(a) \/ ~IsFinite(b) -> SignedInf(SignBit(a) * SignBit(b))
      [] IsZero(a) \/ IsZero(b) -> SignedZero(SignBit(a) * SignBit(b))
      [] OTHER -> Fin(a.n * b.n, a.d * b.d)

\* a < b on floats: false whenever an operand is NaN; -0.0 = +0.0.
FLt(a, b) ==
    CASE a.k = "nan" \/ b.k = "nan" -> FALSE
      [] a.k = "inf" \/ b.k = "neginf" -> FALSE
      [] a.k = "neginf" \/ b.k = "inf" -> TRUE
      [] OTHER -> a.n * b.d < b.n * a.d

FGt(a, b) == FLt(b, a)

FEq(a, b) ==
    /\ a.k # "nan"
    /\ b.k # "nan"
    /\ ~FLt(a, b)
    /\ ~FLt(b, a)

FLe(a, b) == FLt(a, b) \/ FEq(a, b)

(***************************************************************************)
(* The variables of the calls a run does not make                          *)
(***************************************************************************)
\* No calculate_kpis call in this run.
KpiIdle ==
    /\ trades = <<>>
    /\ commission_per_contract = 0
    /\ kpis = None

\* No pricing call in this run.
PriceIdle ==
    /\ exp_value = 0
    /\ strike_price = 0
    /\ volatility = FromInt(0)
    /\ arg_type = "float"
    /\ priced = None

\* No backtest_strategy call in this run.
BacktestIdle ==
    /\ data = <<>>
    /\ rsi_period = 0
    /\ results = None

\* No aggregate_to_daily call in this run.
AggregateIdle ==
    /\ raw_data = <<>>
    /\ daily_data = None
    /\ daily_again = None
    /\ added_columns = {}

\* No load_all_historical_data call in this run.
LoaderIdle ==
    /\ response = None
    /\ obj_pos = 0
    /\ all_data = <<>>
    /\ attempted = {}

\* No load call made yet.  `value` holds the BacktestResults a load returned
\* as a one-element sequence, and is empty when it raised.
NoLoad == [call |-> "none", folder |-> "", raised |-> "", value |-> <<>>]

\* No BacktestResults call in this run.
StoreIdle ==
    /\ store = <<>>
    /\ saves = <<>>
    /\ todo = <<>>
    /\ put_log = {}
    /\ loaded = NoLoad

(***************************************************************************)
(* Sequence helpers (pandas column operations)                             *)
(***************************************************************************)
\* Series.sum()
RECURSIVE SeqSum(_)
SeqSum(s) == IF s = <<>> THEN 0 ELSE s[1] + SeqSum(Tail(s))

\* Series.cumsum(): element i is the running sum of the first i elements,
\* accumulated left to right.
RECURSIVE CumSum(_)
CumSum(s) ==
    IF s = <<>> THEN <<>>
    ELSE LET front == CumSum(SubSeq(s, 1, Len(s) - 1))
             prev == IF front = <<>> THEN 0 ELSE front[Len(front)]
         IN  Append(front, prev + s[Len(s)])

\* Variant: the maximum of the whole column at every position.
CumMaxGlobal(s) == [i \in DOMAIN s |-> SetMax({s[j] : j \in DOMAIN s})]

\* Series.cummax(): element i is the larger of element i and the running
\* maximum before it.
RECURSIVE CumMax(_)
CumMax(s) ==
    IF s = <<>> THEN <<>>
    ELSE LET front == CumMax(SubSeq(s, 1, Len(s) - 1))
             last == s[Len(s)]
         IN  IF front = <<>> THEN <<last>>
             ELSE Append(front, IF last > front[Len(front)]
                                THEN last ELSE front[Len(front)])

\* The elements of a finite set of integers in ascending order.
RECURSIVE SortAsc(_)
SortAsc(S) ==
    IF S = {} THEN <<>>
    ELSE LET m == SetMin(S) IN <<m>> \o SortAsc(S \ {m})

\* Variant: the position of the last occurrence of the minimum.
IdxMinLast(s) ==
    SetMax({i \in DOMAIN s : \A j \in DOMAIN s : s[i] <= s[j]})

\* Series.idxmin() on a default (0..n-1) index: the position of the first
\* occurrence of the minimum.
IdxMin(s) ==
    SetMin({i \in DOMAIN s : \A j \in DOMAIN s : s[i] <= s[j]})

Column(rows, f) == [i \in DOMAIN rows |-> rows[i][f]]

(***************************************************************************)
(* kpi_calculator.py: calculate_kpis                                       *)
(***************************************************************************)
\* Variant: the rates of an empty frame computed as 0 / 0.
EmptyKpisNaNRate ==
    [win_rate |-> NaN, total_trades |-> 0, wins |-> 0, losses |-> 0,
     gross_pnl |-> 0, commissions |-> 0, net_pnl |-> 0,
     max_drawdown |-> 0, max_drawdown_pct |-> NaN,
     recovery_days |-> 0, date_start |-> None, date_end |-> None,
     daily_data |-> <<>>]

\* The dict returned for an empty trades frame (lines 68-83).
EmptyKpis ==
    [win_rate |-> FromInt(0), total_trades |-> 0, wins |-> 0, losses |-> 0,
     gross_pnl |-> 0, commissions |-> 0, net_pnl |-> 0,
     max_drawdown |-> 0, max_drawdown_pct |-> FromInt(0),
     recovery_days |-> 0, date_start |-> None, date_end |-> None,
     daily_data |-> <<>>]

\* Variant: a zero pnl counted as a win.
IsWinOrFlat(row) == row.pnl >= 0

\* trades['pnl'] > 0
IsWin(row) == row.pnl > 0

\* trades['pnl'] <= 0
IsLoss(row) == row.pnl <= 0

\* trades.groupby('Date').agg({'pnl': 'sum', 'entry_cost': 'sum'})
\*       .reset_index().sort_values('Date'): one row per distinct date,
\* dates ascending, positions 1..n standing for the index labels 0..n-1.
GroupByDate(t) ==
    LET dates == SortAsc({t[i].Date : i \in DOMAIN t})
        OnDate(d) == SelectSeq(t, LAMBDA r : r.Date = d)
    IN  [i \in DOMAIN dates |->
            [Date |-> dates[i],
             pnl |-> SeqSum(Column(OnDate(dates[i]), "pnl")),
             entry_cost |-> SeqSum(Column(OnDate(dates[i]), "entry_cost"))]]

\* The daily table with its cumulative_pnl, running_max and drawdown
\* columns (lines 103-112).
DailyTable(t) ==
    LET by_date == GroupByDate(t)
        cumulative_pnl == CumSum(Column(by_date, "pnl"))
        running_max == CumMax(cumulative_pnl)
    IN  [i \in DOMAIN by_date |->
            [Date |-> by_date[i].Date,
             pnl |-> by_date[i].pnl,
             entry_cost |-> by_date[i].entry_cost,
             cumulative_pnl |-> cumulative_pnl[i],
             running_max |-> running_max[i],
             drawdown |-> cumulative_pnl[i] - running_max[i]]]

\* Variant: the guard admits a peak of 0.
MaxDrawdownPctUnguarded(max_drawdown, running_max) ==
    IF running_max >= 0
    THEN FMul(FDiv(FromInt(max_drawdown), FromInt(running_max)), FromInt(100))
    ELSE FromInt(0)

\* (max_drawdown / running_max * 100) if running_max > 0 else 0  (line 116)
MaxDrawdownPct(max_drawdown, running_max) ==
    IF running_max > 0
    THEN FMul(FDiv(FromInt(max_drawdown), FromInt(running_max)), FromInt(100))
    ELSE FromInt(0)

\* Variant: the recovery searched in the whole table, not from the row of
\* maximum drawdown on.
RecoveryDaysFromStart(daily) ==
    LET max_dd_idx == IdxMin(Column(daily, "drawdown"))
        recovered == SelectSeq(daily, LAMBDA r : r.drawdown >= 0)
    IN  IF Len(recovered) > 0
        THEN recovered[1].Date - daily[max_dd_idx].Date
        ELSE 0

\* Lines 119-125: days from the row of maximum drawdown to the first row at
\* or after it with drawdown >= 0; 0 when there is none.
RecoveryDays(daily) ==
    LET max_dd_idx == IdxMin(Column(daily, "drawdown"))
        post_dd == SubSeq(daily, max_dd_idx, Len(daily))
        recovered == SelectSeq(post_dd, LAMBDA r : r.drawdown >= 0)
    IN  IF Len(recovered) > 0
        THEN recovered[1].Date - daily[max_dd_idx].Date
        ELSE 0

calculate_kpis(t, commission) ==
    IF t = <<>> THEN EmptyKpis
    ELSE
      LET total_trades == Len(t)
          win_count == Len(SelectSeq(t, IsWin))
          loss_count == Len(SelectSeq(t, IsLoss))
          win_rate == IF total_trades > 0
                      THEN FDiv(FromInt(win_count), FromInt(total_trades))
                      ELSE FromInt(0)
          gross_pnl == SeqSum(Column(t, "pnl"))
          commissions == total_trades * commission
          daily == DailyTable(t)
          max_drawdown == SetMin({daily[i].drawdown : i \in DOMAIN daily})
          running_max == SetMax({daily[i].running_max : i \in DOMAIN daily})
      IN  [win_rate |-> win_rate,
           total_trades |-> total_trades,
           wins |-> win_count,
           losses |-> loss_count,
           gross_pnl |-> gross_pnl,
           commissions |-> commissions,
           net_pnl |-> gross_pnl - commissions,
           max_drawdown |-> max_drawdown,
           max_drawdown_pct |-> MaxDrawdownPct(max_drawdown, running_max),
           recovery_days |-> RecoveryDays(daily),
           date_start |-> SetMin({t[i].Date : i \in DOMAIN t}),
           date_end |-> SetMax({t[i].Date : i \in DOMAIN t}),
           daily_data |-> daily]

(***************************************************************************)
(* backtest_simplified.py: the probability-based pricing model             *)
(***************************************************************************)
\* max_payout: float = 10.0
MaxPayout == 10

\* volatility: float = 0.01, also the value substituted for volatility <= 0
DefaultVolatility == Fin(1, 100)

\* The clamp bounds 0.05 and 0.95 (line 126).
ProbFloor == Fin(5, 100)

ProbCap == Fin(95, 100)

\* Python's built-in min(a, b) and max(a, b): the first argument unless the
\* second compares strictly smaller (larger); with a NaN second argument
\* the comparison is false and the first argument is returned.
PyMin(a, b) == IF FLt(b, a) THEN b ELSE a

PyMax(a, b) == IF FGt(b, a) THEN b ELSE a

\* The standard normal CDF at 0.0, 0.1, ..., 4.0, in units of 1/10000.
PhiTable ==
    <<5000, 5398, 5793, 6179, 6554, 6915, 7257, 7580, 7881, 8159,
      8413, 8643, 8849, 9032, 9192, 9332, 9452, 9554, 9641, 9713,
      9772, 9821, 9861, 9893, 9918, 9938, 9953, 9965, 9974, 9981,
      9987, 9990, 9993, 9995, 9997, 9998, 9998, 9999, 9999, 10000,
      10000>>

\* scipy.stats.norm.cdf: NaN for NaN, 0 and 1 at the infinities; a finite
\* z is truncated to a multiple of 0.1 (toward zero) and looked up, using
\* cdf(-z) = 1 - cdf(z).  The table stops at |z| = 4, where the CDF rounds
\* to 0 or 1.
NormCdf(z) ==
    CASE z.k = "nan" -> NaN
      [] z.k = "inf" -> FromInt(1)
      [] z.k = "neginf" -> FromInt(0)
      [] OTHER ->
            LET tenths == (10 * Abs(z.n)) \div z.d
                idx == IF tenths >= Len(PhiTable) THEN Len(PhiTable)
                       ELSE tenths + 1
                upper == PhiTable[idx]
            IN  IF z.n >= 0 THEN Fin(upper, 10000)
                ELSE Fin(10000 - upper, 10000)

\* The outcome of a call: raised is "" when the call returned.
Returned(entry_cost, prob) ==
    [raised |-> "", entry_cost |-> entry_cost, probability_itm |-> prob]

Raised(exc) == [raised |-> exc, entry_cost |-> NaN, probability_itm |-> NaN]

\* z_score = (exp_value - strike_price) / (strike_price * volatility)
\* (line 120).  Python's float division raises ZeroDivisionError for a
\* zero divisor; numpy's float64 division returns +-inf or NaN.
ZScore(e, k, vol, type) ==
    LET divisor == FMul(FromInt(k), vol)
    IN  IF type = "float" /\ IsZero(divisor)
        THEN [raised |-> "ZeroDivisionError", z |-> NaN]
        ELSE [raised |-> "", z |-> FDiv(FromInt(e - k), divisor)]

\* Lines 98-126.
calculate_probability_itm(e, k, vol0, type) ==
    LET vol == IF FLe(vol0, FromInt(0)) THEN DefaultVolatility ELSE vol0
        zs == ZScore(e, k, vol, type)
        prob == NormCdf(zs.z)
    IN  IF zs.raised # "" THEN [raised |-> zs.raised, prob |-> NaN]
        ELSE [raised |-> "", prob |-> PyMax(ProbFloor, PyMin(ProbCap, prob))]

\* Lines 129-141.
calculate_fair_entry_cost(e, k, max_payout, vol, type) ==
    LET p == calculate_probability_itm(e, k, vol, type)
    IN  IF p.raised # "" THEN Raised(p.raised)
        ELSE Returned(FMul(FromInt(max_payout), p.prob), p.prob)

(***************************************************************************)
(* Inputs of calculate_fair_entry_cost                                     *)
(***************************************************************************)
ExpValues == {0, 95, 99, 100, 101, 105}

StrikePrices == {0, 100}

Volatilities == {Fin(-1, 100), FromInt(0), Fin(1, 100), Fin(5, 100)}

ArgTypes == {"float", "float64"}

InitPrice ==
    /\ pc = "start"
    /\ exp_value \in ExpValues
    /\ strike_price \in StrikePrices
    /\ volatility \in Volatilities
    /\ arg_type \in ArgTypes
    /\ priced = None
    /\ KpiIdle
    /\ BacktestIdle
    /\ AggregateIdle
    /\ LoaderIdle
    /\ StoreIdle

CalculateFairEntryCost ==
    /\ pc = "start"
    /\ priced' = calculate_fair_entry_cost(exp_value, strike_price, MaxPayout,
                                           volatility, arg_type)
    /\ pc' = "done"
    /\ UNCHANGED <<exp_value, strike_price, volatility, arg_type, kpiVars,
                   backtestVars, aggregateVars, loaderVars, storeVars>>

NextPrice == CalculateFairEntryCost

SpecPrice == InitPrice /\ [][NextPrice]_vars

(***************************************************************************)
(* Properties of calculate_fair_entry_cost (checked under SpecPrice)       *)
(***************************************************************************)
\* The volatility the z-score is computed with, and the z-score's numerator
\* and denominator as integers: z = ZNum / ZDen when ZDen # 0.
EffectiveVolatility ==
    IF volatility.n <= 0 THEN DefaultVolatility ELSE volatility

ZNum == (exp_value - strike_price) * EffectiveVolatility.d

ZDen == strike_price * EffectiveVolatility.n

\* C6: for every E, K and sigma (sigma <= 0 replaced by 0.01, K = 0
\* included) calculate_fair_entry_cost returns without raising, with
\* probability = clamp(NormalCDF((E - K) / (K * sigma)), 0.05, 0.95) and
\* entry_cost = max_payout * probability in [0.05, 0.95] * max_payout;
\* E = 105, K = 100, sigma = 0.01 gives 0.95 and 9.50.
C6_PricerTotal ==
    pc = "done" =>
        /\ priced.raised = ""
        /\ FLe(ProbFloor, priced.probability_itm)
        /\ FLe(priced.probability_itm, ProbCap)
        /\ priced.entry_cost.k = "fin"
        /\ priced.entry_cost.n * priced.probability_itm.d
             = MaxPayout * priced.probability_itm.n * priced.entry_cost.d
        /\ FLe(FMul(ProbFloor, FromInt(MaxPayout)), priced.entry_cost)
        /\ FLe(priced.entry_cost, FMul(ProbCap, FromInt(MaxPayout)))
        /\ ZDen # 0 =>
             LET phi == NormCdf(Fin(ZNum, ZDen))
             IN  priced.probability_itm
                   = IF FLt(phi, ProbFloor) THEN ProbFloor
                     ELSE IF FGt(phi, ProbCap) THEN ProbCap ELSE phi
        /\ (exp_value = 105 /\ strike_price = 100 /\ volatility = Fin(1, 100)) =>
             /\ priced.probability_itm = Fin(95, 100)
             /\ priced.entry_cost = Fin(950, 100)

(***************************************************************************)
(* Inputs of calculate_kpis                                                *)
(***************************************************************************)
\* The longest trade set enumerated exhaustively.
MaxTrades == 3

\* Trade dates as day numbers; the gap between 2 and 4 separates calendar
\* days from row counts.
TradeDates == {1, 2, 4}

PnlVals == {-5, -3, 0, 5}

EntryCostVals == {5}

CommissionVals == {0, 1}

TradeRows == [Date : TradeDates, pnl : PnlVals, entry_cost : EntryCostVals]

\* Daily cumulative_pnl [10, 5, -2, 0, 8]: one trade a day on five days.
ScenarioTrades ==
    <<[Date |-> 1, pnl |-> 10, entry_cost |-> 5],
      [Date |-> 2, pnl |-> -5, entry_cost |-> 5],
      [Date |-> 3, pnl |-> -7, entry_cost |-> 5],
      [Date |-> 4, pnl |-> 2, entry_cost |-> 5],
      [Date |-> 5, pnl |-> 8, entry_cost |-> 5]>>

TradeSets ==
    UNION {[1..n -> TradeRows] : n \in 0..MaxTrades} \cup {ScenarioTrades}

(***************************************************************************)
(* Specification of one calculate_kpis call                                *)
(***************************************************************************)
InitKpi ==
    /\ pc = "start"
    /\ trades \in TradeSets
    /\ commission_per_contract \in CommissionVals
    /\ kpis = None
    /\ PriceIdle
    /\ BacktestIdle
    /\ AggregateIdle
    /\ LoaderIdle
    /\ StoreIdle

CalculateKpis ==
    /\ pc = "start"
    /\ kpis' = calculate_kpis(trades, commission_per_contract)
    /\ pc' = "done"
    /\ UNCHANGED <<trades, commission_per_contract, priceVars, backtestVars,
                   aggregateVars, loaderVars, storeVars>>

NextKpi == CalculateKpis

SpecKpi == InitKpi /\ [][NextKpi]_vars

(***************************************************************************)
(* backtest_simplified.py: the RSI strategy                                *)
(***************************************************************************)
\* oversold: float = 30
Oversold == 30

\* overbought: float = 70
Overbought == 70

\* Series.diff(): NaN at the first position, then the step from the
\* previous value.
Diff(prices) ==
    [i \in DOMAIN prices |->
        IF i = 1 THEN NaN ELSE FromInt(prices[i] - prices[i - 1])]

\* delta.where(delta > 0, 0): a NaN delta fails the test and becomes 0.
WherePositive(delta) ==
    [i \in DOMAIN delta |->
        IF FGt(delta[i], FromInt(0)) THEN delta[i] ELSE FromInt(0)]

\* delta.where(delta < 0, 0)
WhereNegative(delta) ==
    [i \in DOMAIN delta |->
        IF FLt(delta[i], FromInt(0)) THEN delta[i] ELSE FromInt(0)]

\* The sum of floats s[lo..hi], accumulated left to right from 0.0.
RECURSIVE FSum(_, _, _)
FSum(s, lo, hi) ==
    IF hi < lo THEN FromInt(0) ELSE FAdd(FSum(s, lo, hi - 1), s[hi])

\* Variant: rolling(window, min_periods=1).mean(), defined from the first
\* observation on.
RollingMeanPartial(s, window) ==
    [i \in DOMAIN s |->
        LET lo == IF i < window THEN 1 ELSE i - window + 1
        IN  FDiv(FSum(s, lo, i), FromInt(i - lo + 1))]

\* Series.rolling(window).mean(): NaN until the window holds `window`
\* observations, then the mean of the trailing `window` values.
RollingMean(s, window) ==
    [i \in DOMAIN s |->
        IF i < window THEN NaN
        ELSE FDiv(FSum(s, i - window + 1, i), FromInt(window))]

\* Lines 148-155.
calculate_rsi(prices, period) ==
    LET delta == Diff(prices)
        gain == RollingMean(WherePositive(delta), period)
        down == RollingMean(WhereNegative(delta), period)
        loss == [i \in DOMAIN down |-> FNeg(down[i])]
    IN  [i \in DOMAIN prices |->
            LET rs == FDiv(gain[i], loss[i])
            IN  FSub(FromInt(100), FDiv(FromInt(100), FAdd(FromInt(1), rs)))]

\* Lines 163-165: 0 (HOLD), then 1 (BUY) where rsi < oversold, then -1
\* (SELL) where rsi > overbought; a NaN rsi matches neither.
SignalOf(rsi, oversold, overbought) ==
    IF FGt(rsi, FromInt(overbought)) THEN -1
    ELSE IF FLt(rsi, FromInt(oversold)) THEN 1 ELSE 0

\* Lines 158-166: the rows with their rsi and signal columns.
generate_rsi_signals(rows, period, oversold, overbought) ==
    LET rsi == calculate_rsi(Column(rows, "ExpValue"), period)
    IN  [i \in DOMAIN rows |->
            [Ticker |-> rows[i].Ticker,
             ExpValue |-> rows[i].ExpValue,
             StrikePrice |-> rows[i].StrikePrice,
             InTheMoney |-> rows[i].InTheMoney,
             rsi |-> rsi[i],
             signal |-> SignalOf(rsi[i], oversold, overbought)]]

(***************************************************************************)
(* backtest_simplified.py: the backtesting engine                          *)
(***************************************************************************)
\* Series.unique(): the distinct values in order of first appearance.
RECURSIVE Unique(_)
Unique(s) ==
    IF s = <<>> THEN <<>>
    ELSE LET front == Unique(SubSeq(s, 1, Len(s) - 1))
             last == s[Len(s)]
         IN  IF \E i \in DOMAIN front : front[i] = last THEN front
             ELSE Append(front, last)

\* Variant: the two settlement outcomes exchanged.
PnlOfInverted(in_the_money, entry_cost) ==
    IF in_the_money = 1 THEN FNeg(entry_cost)
    ELSE FSub(FromInt(10), entry_cost)

\* pnl = (10.0 - entry_cost) if row['In the Money'] == 1 else -entry_cost
PnlOf(in_the_money, entry_cost) ==
    IF in_the_money = 1 THEN FSub(FromInt(10), entry_cost)
    ELSE FNeg(entry_cost)

\* Lines 192-201 for one row of ticker_data.  A row without a signal is
\* never assigned: its entry_cost, probability_itm and pnl stay missing
\* (NaN, or no such column when no row of the whole run is a trade).  The
\* row's values are numpy float64 scalars.
PriceRow(r, vol) ==
    LET priced_row == calculate_fair_entry_cost(r.ExpValue, r.StrikePrice,
                                                MaxPayout, vol, "float64")
        traded == r.signal # 0
    IN  [Ticker |-> r.Ticker,
         ExpValue |-> r.ExpValue,
         StrikePrice |-> r.StrikePrice,
         InTheMoney |-> r.InTheMoney,
         rsi |-> r.rsi,
         signal |-> r.signal,
         raised |-> IF traded THEN priced_row.raised ELSE "",
         entry_cost |-> IF traded THEN priced_row.entry_cost ELSE NaN,
         probability_itm |-> IF traded THEN priced_row.probability_itm ELSE NaN,
         pnl |-> IF traded THEN PnlOf(r.InTheMoney, priced_row.entry_cost)
                 ELSE NaN]

\* Variant of TickerBlock: the signals are computed over the rows of every
\* instrument, and the instrument's rows selected afterwards.
TickerBlockShared(d, ticker, period, oversold, overbought, vol) ==
    LET signalled == generate_rsi_signals(d, period, oversold, overbought)
        ticker_data == SelectSeq(signalled, LAMBDA r : r.Ticker = ticker)
    IN  [i \in DOMAIN ticker_data |-> PriceRow(ticker_data[i], vol)]

\* Lines 184-203: one instrument's block.
TickerBlock(d, ticker, period, oversold, overbought, vol) ==
    LET ticker_data == SelectSeq(d, LAMBDA r : r.Ticker = ticker)
        signalled == generate_rsi_signals(ticker_data, period, oversold, overbought)
    IN  [i \in DOMAIN signalled |-> PriceRow(signalled[i], vol)]

\* pd.concat(all_results, ignore_index=True)
RECURSIVE Concat(_)
Concat(blocks) ==
    IF blocks = <<>> THEN <<>> ELSE blocks[1] \o Concat(Tail(blocks))

\* Lines 173-205.  pd.concat raises ValueError for an empty list, which is
\* what an input without rows leaves in all_results.
backtest_strategy(d, period, oversold, overbought, vol) ==
    LET tickers == Unique(Column(d, "Ticker"))
        all_results == [i \in DOMAIN tickers |->
                          TickerBlock(d, tickers[i], period, oversold,
                                      overbought, vol)]
        rows == Concat(all_results)
    IN  IF \E i \in DOMAIN rows : rows[i].raised # ""
        THEN [raised |-> "ZeroDivisionError", rows |-> <<>>]
        ELSE IF all_results = <<>>
        THEN [raised |-> "ValueError", rows |-> <<>>]
        ELSE [raised |-> "", rows |-> rows]

(***************************************************************************)
(* Inputs of backtest_strategy                                             *)
(***************************************************************************)
\* The longest daily table enumerated.
MaxRows == 3

Tickers == {"EUR/USD", "GBP/USD"}

SeriesValues == {95, 100, 105}

SeriesStrikes == {100}

Periods == {2, 3}

\* rsi_period: int = 14
DefaultPeriod == 14

\* One instrument, 20 daily values rising from 90 by 1 a day, strike 100,
\* settled in the money when the value ends above the strike.
ScenarioData ==
    [i \in 1..20 |->
        [Ticker |-> "EUR/USD", ExpValue |-> 89 + i, StrikePrice |-> 100,
         InTheMoney |-> IF 89 + i > 100 THEN 1 ELSE 0]]

DataRows ==
    [Ticker : Tickers, ExpValue : SeriesValues, StrikePrice : SeriesStrikes,
     InTheMoney : {0, 1}]

DataTables == UNION {[1..n -> DataRows] : n \in 0..MaxRows}

(***************************************************************************)
(* Specification of one backtest_strategy call                             *)
(***************************************************************************)
InitBacktest ==
    /\ pc = "start"
    /\ \/ data \in DataTables /\ rsi_period \in Periods \cup {DefaultPeriod}
       \/ data = ScenarioData /\ rsi_period = DefaultPeriod
    /\ results = None
    /\ KpiIdle
    /\ PriceIdle
    /\ AggregateIdle
    /\ LoaderIdle
    /\ StoreIdle

BacktestStrategy ==
    /\ pc = "start"
    /\ results' = backtest_strategy(data, rsi_period, Oversold, Overbought,
                                    DefaultVolatility)
    /\ pc' = "done"
    /\ UNCHANGED <<data, rsi_period, kpiVars, priceVars, aggregateVars,
                   loaderVars, storeVars>>

NextBacktest == BacktestStrategy

SpecBacktest == InitBacktest /\ [][NextBacktest]_vars

(***************************************************************************)
(* backtest_simplified.py: aggregate_to_daily                              *)
(***************************************************************************)
\* The instrument identifiers in the order string comparison sorts them.
TickerOrder == <<"EUR/USD", "GBP/USD">>

TickerRank(t) == CHOOSE i \in DOMAIN TickerOrder : TickerOrder[i] = t

\* (Ticker, Date) keys compared as sort_values(['Ticker', 'Date']) does.
KeyLess(a, b) ==
    \/ TickerRank(a[1]) < TickerRank(b[1])
    \/ a[1] = b[1] /\ a[2] < b[2]

RECURSIVE SortKeys(_)
SortKeys(S) ==
    IF S = {} THEN <<>>
    ELSE LET m == CHOOSE x \in S : \A y \in S \ {x} : KeyLess(x, y)
         IN  <<m>> \o SortKeys(S \ {m})

KeyOf(r) == <<r.Ticker, r.Date>>

\* abs(raw_data['Exp Value'] - raw_data['Strike Price'])
StrikeDistance(r) == Abs(r.ExpValue - r.StrikePrice)

\* Variant of GroupIdxMin: the position of the row inside its group, where
\* the code has the index label.
GroupIdxMinPosition(raw, key) ==
    LET members == SortAsc({i \in DOMAIN raw : KeyOf(raw[i]) = key})
        distance == [n \in DOMAIN members |-> StrikeDistance(raw[members[n]])]
    IN  IdxMin(distance)

\* groupby(['Ticker', 'Date'])['strike_distance'].idxmin() for one group:
\* the index label (row position) of the group's first row at the minimal
\* distance.
GroupIdxMin(raw, key) ==
    LET members == SortAsc({i \in DOMAIN raw : KeyOf(raw[i]) = key})
        distance == [n \in DOMAIN members |-> StrikeDistance(raw[members[n]])]
    IN  members[IdxMin(distance)]

\* Lines 77-91.  The idxmin result is ordered by group key, which is the
\* order sort_values(['Ticker', 'Date']) keeps.  Line 89 divides len() by
\* nunique(), two Python ints: an empty table raises ZeroDivisionError.
aggregate_to_daily(raw) ==
    LET keys == SortKeys({KeyOf(raw[i]) : i \in DOMAIN raw})
        idx == [n \in DOMAIN keys |-> GroupIdxMin(raw, keys[n])]
    IN  IF raw = <<>>
        THEN [raised |-> "ZeroDivisionError", rows |-> <<>>]
        ELSE [raised |-> "", rows |-> [n \in DOMAIN idx |-> raw[idx[n]]]]

(***************************************************************************)
(* Inputs of aggregate_to_daily                                            *)
(***************************************************************************)
\* The longest raw table enumerated.
MaxRaw == 3

RawDates == {1, 2}

RawValues == {100}

\* 95 and 105 are equally far from 100.
RawStrikes == {95, 105, 110}

RawRows ==
    [Ticker : Tickers, Date : RawDates, ExpValue : RawValues,
     StrikePrice : RawStrikes]

RawTables == UNION {[1..n -> RawRows] : n \in 0..MaxRaw}

(***************************************************************************)
(* Specification of one aggregate_to_daily call                            *)
(***************************************************************************)
InitAggregate ==
    /\ pc = "start"
    /\ raw_data \in RawTables
    /\ daily_data = None
    /\ daily_again = None
    /\ added_columns = {}
    /\ KpiIdle
    /\ PriceIdle
    /\ BacktestIdle
    /\ LoaderIdle
    /\ StoreIdle

\* Line 84 assigns the 'strike_distance' column into the frame it was
\* handed, before anything can raise; line 86 drops it from the frame it
\* returns only.
AggregateToDaily ==
    /\ pc = "start"
    /\ daily_data' = aggregate_to_daily(raw_data)
    /\ added_columns' = added_columns \cup {"raw_data"}
    /\ pc' = "done"
    /\ UNCHANGED <<raw_data, daily_again, kpiVars, priceVars, backtestVars,
                   loaderVars, storeVars>>

\* The table a first call returned is handed to a second call.
AggregateAgain ==
    /\ pc = "done"
    /\ daily_data.raised = ""
    /\ daily_again' = aggregate_to_daily(daily_data.rows)
    /\ added_columns' = added_columns \cup {"daily_data"}
    /\ pc' = "again"
    /\ UNCHANGED <<raw_data, daily_data, kpiVars, priceVars, backtestVars,
                   loaderVars, storeVars>>

NextAggregate ==
    \/ AggregateToDaily
    \/ AggregateAgain

SpecAggregate == InitAggregate /\ [][NextAggregate]_vars

(***************************************************************************)
(* Properties of calculate_kpis (checked under SpecKpi)                     *)
(***************************************************************************)
KpiDone == pc = "done"

Daily == kpis.daily_data

\* The sum of the pnl of the trades dated d or earlier.
RECURSIVE PnlUpTo(_, _)
PnlUpTo(t, d) ==
    IF t = <<>> THEN 0
    ELSE (IF t[1].Date <= d THEN t[1].pnl ELSE 0) + PnlUpTo(Tail(t), d)

\* C1: for a non-empty trade set the daily table has one row per trade date,
\* dates ascending; cumulative_pnl is the running sum of the per-date pnl,
\* running_max the maximum of cumulative_pnl over the dates so far (never
\* decreasing, >= cumulative_pnl), drawdown = cumulative_pnl - running_max
\* is <= 0, and max_drawdown is the minimum drawdown.
C1_DrawdownTable ==
    (KpiDone /\ trades # <<>>) =>
        /\ {Daily[i].Date : i \in DOMAIN Daily}
             = {trades[i].Date : i \in DOMAIN trades}
        /\ \A i, j \in DOMAIN Daily : i < j => Daily[i].Date < Daily[j].Date
        /\ \A i \in DOMAIN Daily :
            /\ Daily[i].cumulative_pnl = PnlUpTo(trades, Daily[i].Date)
            /\ Daily[i].running_max
                 = SetMax({Daily[j].cumulative_pnl : j \in 1..i})
            /\ Daily[i].running_max >= Daily[i].cumulative_pnl
            /\ i > 1 => Daily[i].running_max >= Daily[i - 1].running_max
            /\ Daily[i].drawdown
                 = Daily[i].cumulative_pnl - Daily[i].running_max
            /\ Daily[i].drawdown <= 0
        /\ kpis.max_drawdown = SetMin({Daily[i].drawdown : i \in DOMAIN Daily})

\* Two trades on one date (+5 and -3) followed by a later losing date: the
\* shared date's cumulative_pnl is 2 at drawdown 0, the later date is below
\* the peak.
C1_Witness ==
    /\ KpiDone
    /\ Len(trades) = 3
    /\ trades[1].Date = trades[2].Date
    /\ trades[1].pnl = 5
    /\ trades[2].pnl = -3
    /\ Len(Daily) = 2
    /\ Daily[1].cumulative_pnl = 2
    /\ Daily[1].drawdown = 0
    /\ Daily[2].drawdown < 0

\* The first row of the daily table on which drawdown attains its minimum.
FirstWorstRow ==
    SetMin({i \in DOMAIN Daily :
              \A j \in DOMAIN Daily : Daily[i].drawdown <= Daily[j].drawdown})

RecoveredRows == {j \in DOMAIN Daily : j >= FirstWorstRow /\ Daily[j].drawdown >= 0}

\* C2: recovery_days is the number of days from the first date of maximum
\* drawdown to the first date at or after it with drawdown >= 0, and 0 when
\* there is none; the sequence [10, 5, -2, 0, 8] has max_drawdown -12 and
\* recovery_days 0.
C2_RecoveryDays ==
    (KpiDone /\ trades # <<>>) =>
        /\ kpis.recovery_days
             = IF RecoveredRows = {} THEN 0
               ELSE Daily[SetMin(RecoveredRows)].Date - Daily[FirstWorstRow].Date
        /\ trades = ScenarioTrades =>
            /\ Column(Daily, "cumulative_pnl") = <<10, 5, -2, 0, 8>>
            /\ Column(Daily, "drawdown") = <<0, -5, -12, -10, -2>>
            /\ kpis.max_drawdown = -12
            /\ kpis.recovery_days = 0

\* A drawdown on day 2 recovered on day 4: two calendar days, one row later.
C2_Witness ==
    /\ KpiDone
    /\ trades # <<>>
    /\ kpis.max_drawdown < 0
    /\ Daily[FirstWorstRow].Date = 2
    /\ RecoveredRows # {}
    /\ kpis.recovery_days = 2

\* C3: a trade is a win exactly when pnl > 0 and a loss exactly when
\* pnl <= 0, so wins + losses = total_trades and win_rate * total_trades =
\* wins (win_rate is 0 for the empty set).
C3_WinLossBoundary ==
    KpiDone =>
        /\ kpis.total_trades = Len(trades)
        /\ kpis.wins = Cardinality({i \in DOMAIN trades : trades[i].pnl > 0})
        /\ kpis.losses = Cardinality({i \in DOMAIN trades : trades[i].pnl <= 0})
        /\ kpis.wins + kpis.losses = kpis.total_trades
        /\ kpis.win_rate.k = "fin"
        /\ kpis.win_rate.n * kpis.total_trades = kpis.wins * kpis.win_rate.d

\* A zero-pnl trade beside a winning one: win_rate 1/2.
C3_Witness ==
    /\ KpiDone
    /\ Len(trades) = 2
    /\ \E i \in DOMAIN trades : trades[i].pnl = 0
    /\ kpis.wins = 1
    /\ kpis.losses = 1
    /\ kpis.win_rate = Fin(1, 2)

\* The largest running_max of the daily table.
Peak == SetMax({Daily[i].running_max : i \in DOMAIN Daily})

\* C4: max_drawdown_pct is max_drawdown / peak * 100 when the peak is > 0
\* and 0 otherwise; it is always a finite number (no division by zero).
C4_MaxDrawdownPct ==
    (KpiDone /\ trades # <<>>) =>
        /\ kpis.max_drawdown_pct.k = "fin"
        /\ Peak > 0 =>
             kpis.max_drawdown_pct.n * Peak
               = kpis.max_drawdown * 100 * kpis.max_drawdown_pct.d
        /\ Peak <= 0 => kpis.max_drawdown_pct = FromInt(0)

\* A peak of 5 followed by a drawdown of 3 below it: -60 percent.
C4_Witness ==
    /\ KpiDone
    /\ trades # <<>>
    /\ Peak = 5
    /\ kpis.max_drawdown = -3
    /\ kpis.max_drawdown_pct = FromInt(-60)

\* C5: for the empty trade set, whatever the commission rate, the call
\* returns the all-zero record with no dates and an empty daily table.
C5_EmptyTradeSet ==
    (KpiDone /\ trades = <<>>) =>
        /\ kpis.total_trades = 0
        /\ kpis.wins = 0
        /\ kpis.losses = 0
        /\ kpis.win_rate = FromInt(0)
        /\ kpis.gross_pnl = 0
        /\ kpis.commissions = 0
        /\ kpis.net_pnl = 0
        /\ kpis.max_drawdown = 0
        /\ kpis.max_drawdown_pct = FromInt(0)
        /\ kpis.recovery_days = 0
        /\ kpis.date_start = None
        /\ kpis.date_end = None
        /\ kpis.daily_data = <<>>

\* The empty trade set at a non-zero commission rate.
C5_Witness ==
    /\ KpiDone
    /\ trades = <<>>
    /\ commission_per_contract = 1
    /\ kpis.total_trades = 0

(***************************************************************************)
(* Properties of backtest_strategy (checked under SpecBacktest)            *)
(***************************************************************************)
BacktestReturned == pc = "done" /\ results.raised = ""

Missing(x) == x.k = "nan"

\* The probabilistic pricer's probability for E and K at the default
\* volatility 0.01 (K # 0): the clamped CDF of z = (E - K) * 100 / K.
PricerProbability(e, k) ==
    LET phi == NormCdf(Fin((e - k) * 100, k))
    IN  IF FLt(phi, ProbFloor) THEN ProbFloor
        ELSE IF FGt(phi, ProbCap) THEN ProbCap ELSE phi

\* C7: in the output an observation carries entry_cost, probability and pnl
\* exactly when its signal is not HOLD; then entry_cost is the pricer's cost
\* for its expected value and strike, and pnl = 10 - entry_cost if it
\* settled in the money, -entry_cost otherwise.
C7_TradesOnlyOnSignals ==
    BacktestReturned =>
        \A i \in DOMAIN results.rows :
            LET r == results.rows[i]
            IN  /\ r.signal \in {-1, 0, 1}
                /\ r.signal # 0 <=> ~Missing(r.entry_cost)
                /\ r.signal # 0 <=> ~Missing(r.probability_itm)
                /\ r.signal # 0 <=> ~Missing(r.pnl)
                /\ r.signal # 0 =>
                    /\ r.probability_itm
                         = PricerProbability(r.ExpValue, r.StrikePrice)
                    /\ r.entry_cost.n * r.probability_itm.d
                         = 10 * r.probability_itm.n * r.entry_cost.d
                    /\ FEq(FAdd(r.pnl, r.entry_cost),
                           IF r.InTheMoney = 1 THEN FromInt(10) ELSE FromInt(0))

\* A run with a winning trade, a losing trade and a HOLD observation.
C7_Witness ==
    /\ BacktestReturned
    /\ \E i, j, h \in DOMAIN results.rows :
        /\ results.rows[i].signal # 0
        /\ results.rows[i].InTheMoney = 1
        /\ FGt(results.rows[i].pnl, FromInt(0))
        /\ results.rows[j].signal # 0
        /\ results.rows[j].InTheMoney = 0
        /\ FLt(results.rows[j].pnl, FromInt(0))
        /\ results.rows[h].signal = 0
        /\ Missing(results.rows[h].pnl)

RowsOf(rows, ticker) == SelectSeq(rows, LAMBDA r : r.Ticker = ticker)

TickersOf(rows) == {rows[i].Ticker : i \in DOMAIN rows}

ShortTickers == {t \in TickersOf(data) : Len(RowsOf(data, t)) < rsi_period}

\* C8: an instrument with fewer than P observations has an undefined
\* oscillator at every date, only HOLD signals and no trades, and the run
\* does not raise, also when every instrument is that short.
C8_ShortSeriesNoTrades ==
    (pc = "done" /\ ShortTickers # {}) =>
        /\ results.raised = ""
        /\ \A t \in ShortTickers :
            LET out == RowsOf(results.rows, t)
            IN  /\ Len(out) = Len(RowsOf(data, t))
                /\ \A i \in DOMAIN out :
                    /\ Missing(out[i].rsi)
                    /\ out[i].signal = 0
                    /\ Missing(out[i].entry_cost)
                    /\ Missing(out[i].pnl)

\* Two instruments, both shorter than the period, one of them moving.
C8_Witness ==
    /\ BacktestReturned
    /\ rsi_period = 3
    /\ Cardinality(TickersOf(data)) = 2
    /\ ShortTickers = TickersOf(data)
    /\ \E i, j \in DOMAIN data :
        /\ i < j
        /\ data[i].Ticker = data[j].Ticker
        /\ data[i].ExpValue # data[j].ExpValue
    /\ Len(results.rows) = Len(data)
    /\ \A i \in DOMAIN results.rows : results.rows[i].signal = 0

\* No value of the trailing `period` observations ending at position i is
\* below its predecessor: the average loss over the window is 0.
NoLossInWindow(prices, i, period) ==
    \A j \in (i - period + 1)..i : j > 1 => prices[j] >= prices[j - 1]

\* C9: from the P-th observation of a series on, when the average loss over
\* the trailing P observations is 0 the oscillator is defined and equals
\* 100, a constant window included.
C9_SaturatesAt100 ==
    BacktestReturned =>
        \A t \in TickersOf(data) :
            LET out == RowsOf(results.rows, t)
                prices == Column(RowsOf(data, t), "ExpValue")
            IN  \A i \in DOMAIN out :
                    (i >= rsi_period /\ NoLossInWindow(prices, i, rsi_period))
                        => out[i].rsi = FromInt(100)

(***************************************************************************)
(* Properties of aggregate_to_daily (checked under SpecAggregate)          *)
(***************************************************************************)
AggregateReturned == pc = "done" /\ daily_data.raised = ""

BaseColumns == {"Ticker", "Date", "ExpValue", "StrikePrice"}

\* The columns a frame has now: its own, and 'strike_distance' once a call
\* has written it there.  A returned frame has had the column dropped.
ColumnsOf(frame) ==
    BaseColumns \cup (IF frame \in added_columns THEN {"strike_distance"} ELSE {})

InputOf(r) ==
    [Ticker |-> r.Ticker, ExpValue |-> r.ExpValue,
     StrikePrice |-> r.StrikePrice, InTheMoney |-> r.InTheMoney]

\* The instruments of a table in order of first appearance.
FirstAppearance(rows) == Unique(Column(rows, "Ticker"))

\* A run over the rows of instrument t alone, with the parameters of the
\* run made.
AloneRun(t) ==
    backtest_strategy(RowsOf(data, t), rsi_period, Oversold, Overbought,
                      DefaultVolatility)

\* C16: the output rows of an instrument X are those of a run, with the same
\* parameters, over X's rows alone, so that any two tables holding the same
\* X rows in the same order give X the same signals, entry costs and pnl
\* whatever the other instruments' rows are; the output is the instruments'
\* blocks one after another in order of first appearance in the input, each
\* block holding the instrument's input rows in input order.
C16_InstrumentsIndependent ==
    BacktestReturned =>
        LET order == FirstAppearance(data)
            out == results.rows
        IN  /\ \A t \in TickersOf(data) :
                  /\ AloneRun(t).raised = ""
                  /\ RowsOf(out, t) = AloneRun(t).rows
            /\ out = Concat([n \in DOMAIN order |-> RowsOf(out, order[n])])
            /\ \A t \in TickersOf(data) :
                  [i \in DOMAIN RowsOf(out, t) |-> InputOf(RowsOf(out, t)[i])]
                    = RowsOf(data, t)

\* An instrument whose two rows surround a row of another instrument and
\* that trades on its second row: its rows come out first and adjacent.
C16_Witness ==
    /\ BacktestReturned
    /\ Len(data) = 3
    /\ data[1].Ticker = data[3].Ticker
    /\ data[2].Ticker # data[1].Ticker
    /\ data[2].ExpValue # data[1].ExpValue
    /\ results.rows[1].Ticker = data[1].Ticker
    /\ results.rows[2].Ticker = data[1].Ticker
    /\ results.rows[3].Ticker = data[2].Ticker
    /\ results.rows[2].signal # 0
    /\ ~Missing(results.rows[2].pnl)

(***************************************************************************)
(* backtest_simplified.py: load_all_historical_data and the head of main   *)
(***************************************************************************)
\* The most objects a listing answers with.
MaxChunks == 2

\* A 'Date' cell of a historical CSV: text in the format '%d-%b-%y'.
DateText(day) == [format |-> "%d-%b-%y", day |-> day]

\* pd.to_datetime(combined['Date'], format='%d-%b-%y') for one cell.
ToDatetime(cell) == cell.day

ChunkRow(ticker, day, strike) ==
    [Ticker |-> ticker, Date |-> DateText(day), ExpValue |-> 100,
     StrikePrice |-> strike]

\* The frames read_csv gives for the chunks enumerated: a header without
\* rows, one row, and two rows of which one shares the first frame's
\* (Ticker, Date) at the same distance from the strike.
ChunkFrames ==
    { <<>>,
      <<ChunkRow("EUR/USD", 2, 105)>>,
      <<ChunkRow("EUR/USD", 2, 95), ChunkRow("GBP/USD", 1, 110)>> }

\* What fetching and reading an object does: "ok", or an exception out of
\* get_object or out of read_csv.
Outcomes == {"ok", "get_object raises", "read_csv raises"}

\* An object of the listing.  Only a chunk that reads has a frame.
ListedObjects ==
    [suffix : {".txt"}, outcome : {"ok"}, frame : {<<>>}]
      \cup [suffix : {".csv"}, outcome : Outcomes \ {"ok"}, frame : {<<>>}]
      \cup [suffix : {".csv"}, outcome : {"ok"}, frame : ChunkFrames]

\* The answers of list_objects_v2: without a 'Contents' entry, or with the
\* objects under the prefix.
Responses ==
    {[has_contents |-> FALSE, Contents |-> <<>>]}
      \cup {[has_contents |-> TRUE, Contents |-> c] :
               c \in UNION {[1..n -> ListedObjects] : n \in 1..MaxChunks}}

\* key.endswith('.csv')
EndsWithCsv(obj) == obj.suffix = ".csv"

\* Variant of ConcatFrames: only the frame read last is kept.
ConcatFramesLast(frames) ==
    IF frames = <<>> THEN <<>> ELSE frames[Len(frames)]

\* pd.concat(all_data, ignore_index=True)
ConcatFrames(frames) == Concat(frames)

\* Line 67 on every row.
ParseDates(rows) ==
    [i \in DOMAIN rows |-> [rows[i] EXCEPT !.Date = ToDatetime(rows[i].Date)]]

\* combined.sort_values('Date'): the default sort is not stable, so rows of
\* one date come out in any order.  The set of the orders positions S of
\* `rows` can come out in.
RECURSIVE SortedOrders(_, _)
SortedOrders(rows, S) ==
    IF S = {} THEN {<<>>}
    ELSE UNION {{<<rows[i]>> \o rest : rest \in SortedOrders(rows, S \ {i})} :
                  i \in {m \in S : \A j \in S : rows[m].Date <= rows[j].Date}}

\* Lines 66-74.
CombineAndSort(frames) ==
    LET combined == ParseDates(ConcatFrames(frames))
    IN  SortedOrders(combined, DOMAIN combined)

(***************************************************************************)
(* Specification of main up to aggregate_to_daily: one load of the         *)
(* historical data, then the empty-data guard                              *)
(***************************************************************************)
InitLoad ==
    /\ pc = "start"
    /\ response \in Responses
    /\ obj_pos = 0
    /\ all_data = <<>>
    /\ attempted = {}
    /\ KpiIdle
    /\ PriceIdle
    /\ BacktestIdle
    /\ AggregateIdle
    /\ StoreIdle

InLoop == pc = "loop" /\ obj_pos \in DOMAIN response.Contents

\* Lines 43-46: without 'Contents' the function returns an empty frame at
\* once, which main binds to raw_data.
ListObjects ==
    /\ pc = "start"
    /\ IF response.has_contents
       THEN pc' = "loop" /\ obj_pos' = 1
       ELSE pc' = "loaded" /\ obj_pos' = obj_pos
    /\ raw_data' = <<>>
    /\ UNCHANGED <<response, all_data, attempted, daily_data, daily_again,
                   added_columns, kpiVars, priceVars, backtestVars,
                   storeVars>>

\* Lines 52-54: a key that is no CSV is passed over.
SkipKey ==
    /\ InLoop
    /\ ~EndsWithCsv(response.Contents[obj_pos])
    /\ obj_pos' = obj_pos + 1
    /\ UNCHANGED <<pc, response, all_data, attempted, kpiVars, priceVars,
                   backtestVars, aggregateVars, storeVars>>

\* Lines 55-59: the chunk is fetched, read and appended.
LoadChunk ==
    /\ InLoop
    /\ EndsWithCsv(response.Contents[obj_pos])
    /\ response.Contents[obj_pos].outcome = "ok"
    /\ attempted' = attempted \cup {obj_pos}
    /\ all_data' = Append(all_data, response.Contents[obj_pos].frame)
    /\ obj_pos' = obj_pos + 1
    /\ UNCHANGED <<pc, response, kpiVars, priceVars, backtestVars,
                   aggregateVars, storeVars>>

\* Lines 55-61: get_object or read_csv raises; the handler prints a warning
\* and the loop goes on.
ChunkFails ==
    /\ InLoop
    /\ EndsWithCsv(response.Contents[obj_pos])
    /\ response.Contents[obj_pos].outcome # "ok"
    /\ attempted' = attempted \cup {obj_pos}
    /\ obj_pos' = obj_pos + 1
    /\ UNCHANGED <<pc, response, all_data, kpiVars, priceVars, backtestVars,
                   aggregateVars, storeVars>>

\* Lines 63-74 and main's line 243: after the loop the function returns an
\* empty frame if nothing was read, else the combined frame sorted by date;
\* main binds it to raw_data.
ReturnLoaded ==
    /\ pc = "loop"
    /\ obj_pos > Len(response.Contents)
    /\ IF all_data = <<>>
       THEN raw_data' = <<>>
       ELSE raw_data' \in CombineAndSort(all_data)
    /\ pc' = "loaded"
    /\ UNCHANGED <<daily_data, daily_again, added_columns, loaderVars,
                   kpiVars, priceVars, backtestVars, storeVars>>

\* main, lines 244-246: raw_data.empty, main returns.
MainExits ==
    /\ pc = "loaded"
    /\ raw_data = <<>>
    /\ pc' = "exited"
    /\ UNCHANGED <<loaderVars, kpiVars, priceVars, backtestVars,
                   aggregateVars, storeVars>>

\* main, line 248: daily_data = aggregate_to_daily(raw_data)
MainAggregates ==
    /\ pc = "loaded"
    /\ raw_data # <<>>
    /\ daily_data' = aggregate_to_daily(raw_data)
    /\ added_columns' = added_columns \cup {"raw_data"}
    /\ pc' = "aggregated"
    /\ UNCHANGED <<raw_data, daily_again, loaderVars, kpiVars, priceVars,
                   backtestVars, storeVars>>

NextLoad ==
    \/ ListObjects
    \/ SkipKey
    \/ LoadChunk
    \/ ChunkFails
    \/ ReturnLoaded
    \/ MainExits
    \/ MainAggregates

SpecLoad == InitLoad /\ [][NextLoad]_vars

(***************************************************************************)
(* Properties of load_all_historical_data (checked under SpecLoad)         *)
(***************************************************************************)
\* load_all_historical_data has returned.
LoadReturned == pc \in {"loaded", "exited", "aggregated"}

CsvPositions ==
    {i \in DOMAIN response.Contents : EndsWithCsv(response.Contents[i])}

FailedChunks == {i \in CsvPositions : response.Contents[i].outcome # "ok"}

LoadedChunks == CsvPositions \ FailedChunks

\* The rows of the chunks that were read, in listing order, dates parsed.
RECURSIVE RowsOfChunks(_)
RowsOfChunks(n) ==
    IF n = 0 THEN <<>>
    ELSE RowsOfChunks(n - 1)
           \o (IF n \in LoadedChunks
               THEN ParseDates(response.Contents[n].frame) ELSE <<>>)

CountOf(rows, r) == Cardinality({i \in DOMAIN rows : rows[i] = r})

SameRows(a, b) ==
    /\ Len(a) = Len(b)
    /\ \A i \in DOMAIN a : CountOf(a, a[i]) = CountOf(b, a[i])

\* C17: whatever the listing and whichever chunks fail to be fetched or
\* read, the load returns without raising after attempting every CSV chunk
\* of the listing; the table returned holds exactly the rows of the chunks
\* that were read (dates parsed, ordered by date); it is empty when nothing
\* was listed or nothing was read, and main then exits without aggregating
\* or backtesting.
C17_ChunkFailuresSkipped ==
    LoadReturned =>
        /\ attempted = CsvPositions
        /\ SameRows(raw_data, RowsOfChunks(Len(response.Contents)))
        /\ \A i, j \in DOMAIN raw_data :
              i < j => raw_data[i].Date <= raw_data[j].Date
        /\ (~response.has_contents \/ LoadedChunks = {}) => raw_data = <<>>
        /\ raw_data = <<>> => pc # "aggregated"
        /\ pc = "exited" => daily_data = None /\ results = None

\* A listing of two chunks whose first fails and whose second is read.
C17_Witness ==
    /\ pc = "aggregated"
    /\ Len(response.Contents) = 2
    /\ FailedChunks = {1}
    /\ LoadedChunks = {2}
    /\ Len(raw_data) = 2
    /\ raw_data[1].Ticker = "GBP/USD"

(***************************************************************************)
(* backtest_results.py: the BacktestResults container and its artifacts    *)
(*                                                                         *)
(* A DataFrame is [columns, rows]; a Timestamp in a frame is its day       *)
(* number, a date of the KPI dict is [kind |-> "Timestamp", day |-> n] or  *)
(* [kind |-> "None", day |-> 0], and date text is [format, day].  A dict   *)
(* is a function on its keys.                                              *)
(***************************************************************************)
\* pd.DataFrame(): no columns, no rows.
EmptyFrame == [columns |-> <<>>, rows |-> <<>>]

TradeColumns == <<"Date", "pnl", "entry_cost">>

DailyColumns ==
    <<"Date", "pnl", "entry_cost", "cumulative_pnl", "running_max", "drawdown">>

Timestamp(day) == [kind |-> "Timestamp", day |-> day]

NoDate == [kind |-> "None", day |-> 0]

\* The dict calculate_kpis returns for trade set t, in the representation
\* above.  The daily table of the empty trade set is pd.DataFrame()
\* (kpi_calculator.py line 82).
KpisOf(t) ==
    LET k == calculate_kpis(t, 0)
    IN  [k EXCEPT
           !.date_start = IF t = <<>> THEN NoDate ELSE Timestamp(k.date_start),
           !.date_end = IF t = <<>> THEN NoDate ELSE Timestamp(k.date_end),
           !.daily_data = IF t = <<>> THEN EmptyFrame
                          ELSE [columns |-> DailyColumns, rows |-> k.daily_data]]

\* BacktestResults(trades=t, kpis=calculate_kpis(t),
\*                 daily_metrics=kpis['daily_data'], ...).  An empty trade
\* set is a frame that has its columns and no rows.
BacktestResults(t, strategy_params, generated_at) ==
    LET calculated == KpisOf(t)
    IN  [trades |-> [columns |-> TradeColumns, rows |-> t],
         kpis |-> calculated,
         daily_metrics |-> calculated.daily_data,
         strategy_params |-> strategy_params,
         generated_at |-> generated_at]

\* x.strftime('%Y-%m-%d'), also what to_csv writes for a Timestamp
Strftime(day) == [format |-> "%Y-%m-%d", day |-> day]

\* DataFrame.to_csv(index=False): the header line and one line a row, the
\* dates as text.  A frame without columns gives a file without header.
ToCsv(frame) ==
    [header |-> frame.columns,
     lines |-> [i \in DOMAIN frame.rows |->
                  [frame.rows[i] EXCEPT !.Date = Strftime(@)]]]

\* pd.read_csv: "No columns to parse from file" for a file without header;
\* dates come back as text.
ReadCsv(body) ==
    IF body.header = <<>>
    THEN [raised |-> "EmptyDataError", frame |-> EmptyFrame]
    ELSE [raised |-> "", frame |-> [columns |-> body.header, rows |-> body.lines]]

\* frame['Date'] = pd.to_datetime(frame['Date'])
DateToDatetime(frame) ==
    [frame EXCEPT
       !.rows = [i \in DOMAIN frame.rows |->
                   [frame.rows[i] EXCEPT !.Date = ToDatetime(@)]]]

\* Lines 186-187 (and 209-210, 252-253, 262-263): read one CSV artifact.
LoadFrame(body) ==
    LET read == ReadCsv(body)
    IN  IF read.raised # "" THEN read
        ELSE [raised |-> "", frame |-> DateToDatetime(read.frame)]

\* dict without key k
DictDel(d, k) == [x \in DOMAIN d \ {k} |-> d[x]]

\* dict with d[k] = v
DictSet(d, k, v) == [x \in DOMAIN d \cup {k} |-> IF x = k THEN v ELSE d[x]]

\* Lines 139-142 for one date entry: a value with strftime becomes text.
DateForJson(v) ==
    IF v.kind = "Timestamp" THEN [kind |-> "str", day |-> v.day] ELSE v

\* Lines 135-148.
PrepareKpisForJson(self) ==
    LET dated == [self.kpis EXCEPT !.date_start = DateForJson(@),
                                   !.date_end = DateForJson(@)]
        prepared == DictDel(dated, "daily_data")
    IN  DictSet(DictSet(prepared, "generated_at", self.generated_at),
                "strategy_params", self.strategy_params)

\* json.dumps(..., default=str) on the date entries: None is written as
\* null, text as text.  Numbers and strings are written as they are.
JsonDumps(d) ==
    LET Dump(v) == IF v.kind = "None" THEN [kind |-> "null", day |-> 0] ELSE v
    IN  [d EXCEPT !.date_start = Dump(@), !.date_end = Dump(@)]

\* json.loads: null is read as None.
JsonLoads(body) ==
    LET Load(v) == IF v.kind = "null" THEN NoDate ELSE v
    IN  [body EXCEPT !.date_start = Load(@), !.date_end = Load(@)]

\* Lines 197-200: a date entry that is truthy goes through pd.to_datetime.
DateFromJson(v) ==
    IF v.kind = "str" THEN Timestamp(v.day) ELSE v

\* Lines 215-222 (264-272): the container a load builds of the three parts.
Assemble(trades_frame, json_kpis, daily_frame) ==
    LET dated == [json_kpis EXCEPT !.date_start = DateFromJson(@),
                                   !.date_end = DateFromJson(@)]
        with_daily == DictSet(dated, "daily_data", daily_frame)
        popped == DictDel(DictDel(with_daily, "strategy_params"), "generated_at")
    IN  [trades |-> trades_frame,
         kpis |-> popped,
         daily_metrics |-> daily_frame,
         strategy_params |-> with_daily.strategy_params,
         generated_at |-> with_daily.generated_at]

\* The three artifacts of a group, in the order the saves write them.
Artifacts == <<"trades.csv", "kpi_summary.json", "daily_metrics.csv">>

\* The dated folders used under the prefix.
DatedFolders == {"2024-01-01", "2024-01-02"}

\* f"{prefix}/latest"
LatestFolder == "latest"

\* output_dir / input_dir: str = 'reports'
LocalDir == "reports"

\* The keys of one folder in writing order.
FolderKeys(folder) == [i \in DOMAIN Artifacts |-> <<folder, Artifacts[i]>>]

\* What a save writes under an artifact's key (lines 103, 112, 121; 232,
\* 237, 241).
BodyOf(self, artifact) ==
    CASE artifact = "trades.csv" -> ToCsv(self.trades)
      [] artifact = "kpi_summary.json" -> JsonDumps(PrepareKpisForJson(self))
      [] artifact = "daily_metrics.csv" -> ToCsv(self.daily_metrics)

\* The three reads of a load, in order, on the objects `st`; a missing
\* object raises `missing`, the error of the client or of the file system.
ReadGroup(st, folder, missing) ==
    LET Has(a) == <<folder, a>> \in DOMAIN st
        Body(a) == st[<<folder, a>>].body
        Absent == [raised |-> missing, frame |-> EmptyFrame]
        trades_read == IF Has("trades.csv") THEN LoadFrame(Body("trades.csv"))
                       ELSE Absent
        daily_read == IF Has("daily_metrics.csv")
                      THEN LoadFrame(Body("daily_metrics.csv"))
                      ELSE Absent
    IN  IF trades_read.raised # ""
        THEN [raised |-> trades_read.raised, value |-> <<>>]
        ELSE IF ~Has("kpi_summary.json")
        THEN [raised |-> missing, value |-> <<>>]
        ELSE IF daily_read.raised # ""
        THEN [raised |-> daily_read.raised, value |-> <<>>]
        ELSE [raised |-> "",
              value |-> <<Assemble(trades_read.frame,
                                   JsonLoads(Body("kpi_summary.json")),
                                   daily_read.frame)>>]

\* Lines 150-222.  Each of the three reads sits in a try whose handler
\* raises FileNotFoundError for any Exception (lines 189, 202, 212).
load_from_s3(st, folder) ==
    LET read == ReadGroup(st, folder, "ClientError")
    IN  [read EXCEPT !.raised = IF @ = "" THEN "" ELSE "FileNotFoundError"]

\* Lines 247-272.  No handler: a missing file raises FileNotFoundError out
\* of read_csv or open, anything else raises as it is.
load_local(st, input_dir) == ReadGroup(st, input_dir, "FileNotFoundError")

(***************************************************************************)
(* Inputs of the saves                                                     *)
(***************************************************************************)
\* The most save calls of a behaviour.
MaxSaves == 2

\* The trade sets saved: the empty one, a win and a loss on two days, one
\* win; with the parameters and the creation time of their containers.
RunInputs ==
    << [trades |-> <<>>,
        strategy_params |-> [rsi_period |-> 14],
        generated_at |-> "2024-01-01T18:00:00"],
       [trades |-> <<[Date |-> 1, pnl |-> 5, entry_cost |-> 5],
                     [Date |-> 2, pnl |-> -5, entry_cost |-> 5]>>,
        strategy_params |-> [rsi_period |-> 14],
        generated_at |-> "2024-01-02T18:00:00"],
       [trades |-> <<[Date |-> 4, pnl |-> 5, entry_cost |-> 5]>>,
        strategy_params |-> [rsi_period |-> 3],
        generated_at |-> "2024-01-02T19:00:00"] >>

\* The containers saved.
Runs ==
    [i \in DOMAIN RunInputs |->
        BacktestResults(RunInputs[i].trades, RunInputs[i].strategy_params,
                        RunInputs[i].generated_at)]

(***************************************************************************)
(* Specification of the saves and loads of BacktestResults under one       *)
(* prefix and in one local directory, one call at a time                   *)
(***************************************************************************)
InitStore ==
    /\ pc = "start"
    /\ StoreIdle
    /\ KpiIdle
    /\ PriceIdle
    /\ BacktestIdle
    /\ AggregateIdle
    /\ LoaderIdle

\* No save is running.
Quiescent == todo = <<>>

\* Lines 90-100: save_to_s3 is entered; the dated folder comes first in
\* `paths`, the latest folder second when save_latest is set.
SaveToS3(run, date, save_latest) ==
    /\ Quiescent
    /\ Len(saves) < MaxSaves
    /\ saves' = Append(saves, [call |-> "save_to_s3", run |-> run,
                               folder |-> date, save_latest |-> save_latest,
                               status |-> "running"])
    /\ todo' = FolderKeys(date)
                 \o (IF save_latest THEN FolderKeys(LatestFolder) ELSE <<>>)
    /\ loaded' = NoLoad
    /\ UNCHANGED <<pc, store, put_log, kpiVars, priceVars, backtestVars,
                   aggregateVars, loaderVars>>

\* Lines 224-229: save_local is entered.
SaveLocal(run) ==
    /\ Quiescent
    /\ Len(saves) < MaxSaves
    /\ saves' = Append(saves, [call |-> "save_local", run |-> run,
                               folder |-> LocalDir, save_latest |-> FALSE,
                               status |-> "running"])
    /\ todo' = FolderKeys(LocalDir)
    /\ loaded' = NoLoad
    /\ UNCHANGED <<pc, store, put_log, kpiVars, priceVars, backtestVars,
                   aggregateVars, loaderVars>>

\* One put_object (lines 104, 113, 122) or file write (232, 237, 241) of
\* the running save; after the last one the save returns.
PutObject ==
    /\ todo # <<>>
    /\ LET id == Len(saves)
           key == Head(todo)
           body == BodyOf(Runs[saves[id].run], key[2])
       IN  /\ store' = [k \in DOMAIN store \cup {key} |->
                          IF k = key THEN [save |-> id, body |-> body]
                          ELSE store[k]]
           /\ put_log' = put_log \cup {[save |-> id, key |-> key, body |-> body]}
           /\ saves' = [saves EXCEPT ![id].status =
                          IF Tail(todo) = <<>> THEN "completed" ELSE @]
    /\ todo' = Tail(todo)
    /\ UNCHANGED <<pc, loaded, kpiVars, priceVars, backtestVars,
                   aggregateVars, loaderVars>>

\* The put or write raises: nothing in the save catches it, the writes made
\* before stay and the remaining ones are not made.
PutFails ==
    /\ todo # <<>>
    /\ saves' = [saves EXCEPT ![Len(saves)].status = "failed"]
    /\ todo' = <<>>
    /\ UNCHANGED <<pc, store, put_log, loaded, kpiVars, priceVars,
                   backtestVars, aggregateVars, loaderVars>>

\* Line 177: folder = date if date else "latest"
FolderOf(date) == IF date = None THEN LatestFolder ELSE date

LoadFromS3(date) ==
    /\ Quiescent
    /\ LET read == load_from_s3(store, FolderOf(date))
       IN  loaded' = [call |-> "load_from_s3", folder |-> FolderOf(date),
                      raised |-> read.raised, value |-> read.value]
    /\ UNCHANGED <<pc, store, saves, todo, put_log, kpiVars, priceVars,
                   backtestVars, aggregateVars, loaderVars>>

LoadLocal ==
    /\ Quiescent
    /\ LET read == load_local(store, LocalDir)
       IN  loaded' = [call |-> "load_local", folder |-> LocalDir,
                      raised |-> read.raised, value |-> read.value]
    /\ UNCHANGED <<pc, store, saves, todo, put_log, kpiVars, priceVars,
                   backtestVars, aggregateVars, loaderVars>>

NextStore ==
    \/ \E run \in DOMAIN Runs, date \in DatedFolders, save_latest \in BOOLEAN :
          SaveToS3(run, date, save_latest)
    \/ \E run \in DOMAIN Runs : SaveLocal(run)
    \/ PutObject
    \/ PutFails
    \/ \E date \in DatedFolders \cup {None} : LoadFromS3(date)
    \/ LoadLocal

SpecStore == InitStore /\ [][NextStore]_vars

(***************************************************************************)
(* Properties of the saves and loads (checked under SpecStore)             *)
(***************************************************************************)
AllFolders == DatedFolders \cup {LatestFolder, LocalDir}

ArtifactSet == {Artifacts[i] : i \in DOMAIN Artifacts}

\* The artifacts folder holds now that save id wrote.
HeldOf(folder, id) ==
    {a \in ArtifactSet :
        /\ <<folder, a>> \in DOMAIN store
        /\ store[<<folder, a>>].save = id}

\* Some artifact of the folder is missing.
SomeMissing(folder) == \E a \in ArtifactSet : <<folder, a>> \notin DOMAIN store

LastSave == saves[Len(saves)]

AllCompleted == \A i \in DOMAIN saves : saves[i].status = "completed"

\* C12: whenever no save is running, also after a save one of whose puts
\* raised, every folder (dated, latest, local) holds of every save either
\* all three artifacts or none: no folder holds a part of a save or
\* artifacts of two saves.
C12_SaveAtomic ==
    Quiescent =>
        \A folder \in AllFolders : \A id \in DOMAIN saves :
            HeldOf(folder, id) \in {{}, ArtifactSet}

\* The same with every save completed: what the code does keep.
CompletedSavesWhole ==
    (Quiescent /\ AllCompleted) =>
        \A folder \in AllFolders : \A id \in DOMAIN saves :
            HeldOf(folder, id) \in {{}, ArtifactSet}

\* C13: a load raises FileNotFoundError exactly when one of the three
\* artifacts of the folder it reads is missing; with all three there, a
\* load that cannot parse one raises another error.
C13_NotFoundOnlyWhenMissing ==
    loaded.call # "none" =>
        (loaded.raised = "FileNotFoundError" <=> SomeMissing(loaded.folder))

\* The same of load_local alone, which has no handler.
LoadLocalDistinguishes ==
    loaded.call = "load_local" =>
        (loaded.raised = "FileNotFoundError" <=> SomeMissing(loaded.folder))

\* The load made is of a folder the last save wrote and completed, through
\* the same medium.
LoadedWhatWasSaved ==
    /\ loaded.call # "none"
    /\ saves # <<>>
    /\ LastSave.status = "completed"
    /\ \/ /\ LastSave.call = "save_to_s3"
          /\ loaded.call = "load_from_s3"
          /\ \/ loaded.folder = LastSave.folder
             \/ LastSave.save_latest /\ loaded.folder = LatestFolder
       \/ /\ LastSave.call = "save_local"
          /\ loaded.call = "load_local"

\* C14: a load of a folder a completed save has just written returns a
\* container equal to the one saved: trades, daily table, strategy_params,
\* generated_at, and the KPI dict with its dates as timestamps again, the
\* daily table under 'daily_data' and no 'strategy_params' or
\* 'generated_at' entry; the container of the empty trade set included.
C14_RoundTrip ==
    LoadedWhatWasSaved =>
        /\ loaded.raised = ""
        /\ loaded.value = <<Runs[LastSave.run]>>
        /\ loaded.value[1].kpis.daily_data = loaded.value[1].daily_metrics
        /\ DOMAIN loaded.value[1].kpis
             \cap {"strategy_params", "generated_at"} = {}

\* The same of the containers that hold trades.
RoundTripWithTrades ==
    (LoadedWhatWasSaved /\ Runs[LastSave.run].trades.rows # <<>>) =>
        /\ loaded.raised = ""
        /\ loaded.value = <<Runs[LastSave.run]>>
        /\ loaded.value[1].kpis.daily_data = loaded.value[1].daily_metrics
        /\ DOMAIN loaded.value[1].kpis
             \cap {"strategy_params", "generated_at"} = {}

\* The save_to_s3 calls made with save_latest set.
LatestSavers ==
    {i \in DOMAIN saves : saves[i].call = "save_to_s3" /\ saves[i].save_latest}

\* The body save id wrote under the key.
WrittenBy(id, key) ==
    (CHOOSE e \in put_log : e.save = id /\ e.key = key).body

\* The latest folder holds what the last save made with save_latest wrote
\* into its dated folder, and no other save wrote into the latest folder.
LatestIsLastSaver ==
    (Quiescent /\ AllCompleted /\ LatestSavers # {}) =>
        LET last == SetMax(LatestSavers)
        IN  /\ \A a \in ArtifactSet :
                  /\ <<LatestFolder, a>> \in DOMAIN store
                  /\ store[<<LatestFolder, a>>].save = last
                  /\ store[<<LatestFolder, a>>].body
                       = WrittenBy(last, <<saves[last].folder, a>>)
            /\ \A e \in put_log :
                  e.key[1] = LatestFolder => e.save \in LatestSavers

\* C15: after completed saves, load_from_s3 with date = None returns the
\* container of the last save made with save_latest set, the latest folder
\* holding what that save wrote into its dated folder; a save without
\* save_latest writes nothing into the latest folder.
C15_LatestAlias ==
    (AllCompleted /\ LatestSavers # {} /\ loaded.call = "load_from_s3"
       /\ loaded.folder = LatestFolder) =>
        /\ LatestIsLastSaver
        /\ loaded.raised = ""
        /\ loaded.value = <<Runs[saves[SetMax(LatestSavers)].run]>>

\* The same when the last save with save_latest set holds trades.
LatestAliasWithTrades ==
    (AllCompleted /\ LatestSavers # {} /\ loaded.call = "load_from_s3"
       /\ loaded.folder = LatestFolder
       /\ Runs[saves[SetMax(LatestSavers)].run].trades.rows # <<>>) =>
        /\ LatestIsLastSaver
        /\ loaded.raised = ""
        /\ loaded.value = <<Runs[saves[SetMax(LatestSavers)].run]>>

=============================================================================
